---- MODULE Spec2Model ----
(***************************************************************************)
(* Model of the drift liquidator (src/src/main.rs): the polling loop of    *)
(* main, the per-account task run by the rayon fan-out, and the two        *)
(* functions settle_funding_payment and calculate_margin_ratio.            *)
(*                                                                         *)
(* Integers are scaled down: I128_MAX stands for i128::MAX and U128_MAX    *)
(* for u128::MAX, and every checked operation fails outside these ranges   *)
(* exactly as the 128-bit one does outside its own.                        *)
(***************************************************************************)
EXTENDS Integers, Sequences, FiniteSets, TLC

\* ------------------------------------------------------------------ widths
\* Stand-in for i128::MAX (the model's signed range is I128_MIN..I128_MAX).
I128_MAX == 63
I128_MIN == -I128_MAX - 1
\* Stand-in for u128::MAX.
U128_MAX == 2 * I128_MAX + 1
\* Largest number of slots of a Position Set.
MaxPositions == 2

\* clearing_house::math::constants, scaled with the widths.
MARGIN_PRECISION == 10
AMM_TO_QUOTE_PRECISION_RATIO_I128 == 4
\* MARK_PRICE_PRECISION * FUNDING_PAYMENT_PRECISION, the divisor of a payment.
FUNDING_PAYMENT_DIVISOR == 2

\* ------------------------------------------------------------- arithmetic
Abs(x) == IF x < 0 THEN -x ELSE x
Sign(x) == IF x > 0 THEN 1 ELSE IF x < 0 THEN -1 ELSE 0
\* Rust integer division: truncates toward zero (d > 0 here).
TruncDiv(n, d) == IF n >= 0 THEN n \div d ELSE -((-n) \div d)

InI128(x) == x >= I128_MIN /\ x <= I128_MAX
InU128(x) == x >= 0 /\ x <= U128_MAX

\* Option<T> of the checked_* operations and Result<T, E> of the helpers:
\* status "ok" with a value, or status "err".
Ok(v) == [status |-> "ok", val |-> v]
Err == [status |-> "err", val |-> 0]

i128_checked_add(a, b) == IF InI128(a + b) THEN Ok(a + b) ELSE Err
i128_checked_sub(a, b) == IF InI128(a - b) THEN Ok(a - b) ELSE Err
i128_checked_div(a, b) ==
    IF b = 0 \/ (a = I128_MIN /\ b = -1) THEN Err ELSE Ok(TruncDiv(a, b))
u128_checked_add(a, b) == IF InU128(a + b) THEN Ok(a + b) ELSE Err
u128_checked_sub(a, b) == IF InU128(a - b) THEN Ok(a - b) ELSE Err
u128_wrapping_mul(a, b) == Ok((a * b) % (U128_MAX + 1))

u128_checked_mul(a, b) == IF InU128(a * b) THEN Ok(a * b) ELSE Err
u128_checked_div(a, b) == IF b = 0 THEN Err ELSE Ok(a \div b)

\* ------------------------------------------- helpers of the venue's crate
\* clearing_house::math::collateral::calculate_updated_collateral: a loss
\* larger than the collateral leaves 0, a gain is added overflow-checked.
calculate_updated_collateral(collateral, pnl) ==
    IF pnl < 0 /\ Abs(pnl) > collateral THEN Ok(0)
    ELSE IF pnl > 0 THEN u128_checked_add(collateral, Abs(pnl))
    ELSE u128_checked_sub(collateral, Abs(pnl))

\* clearing_house::math::funding::calculate_funding_payment: the payment for
\* the rate delta since the position's checkpoint; longs pay a positive
\* delta, shorts receive it.
calculate_funding_payment(amm_cumulative_funding_rate, market_position) ==
    LET delta == i128_checked_sub(amm_cumulative_funding_rate,
                                  market_position.last_cumulative_funding_rate)
    IN  IF delta.status = "err" THEN Err
        ELSE IF delta.val = 0 THEN Ok(0)
        ELSE LET magnitude == (Abs(delta.val) * Abs(market_position.base_asset_amount))
                                  \div FUNDING_PAYMENT_DIVISOR
                 payment_sign == IF market_position.base_asset_amount > 0 THEN -1 ELSE 1
             IN  IF magnitude > I128_MAX THEN Err
                 ELSE Ok(magnitude * payment_sign * Sign(delta.val))

\* clearing_house::math::position::calculate_base_asset_value_and_pnl: the
\* notional value of the position at the market's price and its signed
\* unrealized P&L against the entry value.
calculate_base_asset_value_and_pnl(market_position, amm) ==
    IF market_position.base_asset_amount = 0 THEN Ok(<<0, 0>>)
    ELSE LET value == Abs(market_position.base_asset_amount) * amm.price
             pnl == IF market_position.base_asset_amount > 0
                    THEN value - market_position.quote_asset_amount
                    ELSE market_position.quote_asset_amount - value
         IN  IF ~InU128(value) \/ ~InI128(value) \/ ~InI128(pnl) THEN Err
             ELSE Ok(<<value, pnl>>)

\* ------------------------------------------------- settle_funding_payment
\* The funding rate branch selected by the sign of the exposure.
amm_cumulative_funding_rate_Swapped(market_position, amm) ==
    IF market_position.base_asset_amount > 0
    THEN amm.cumulative_funding_rate_short
    ELSE amm.cumulative_funding_rate_long

amm_cumulative_funding_rate(market_position, amm) ==
    IF market_position.base_asset_amount > 0
    THEN amm.cumulative_funding_rate_long
    ELSE amm.cumulative_funding_rate_short

\* The checkpoint of a settled position: the market's rate and timestamp.
advance_checkpoint_TsOnly(market_position, amm, rate) ==
    [market_position EXCEPT !.last_funding_rate_ts = amm.last_funding_rate_ts]

advance_checkpoint(market_position, amm, rate) ==
    [market_position EXCEPT !.last_cumulative_funding_rate = rate,
                            !.last_funding_rate_ts = amm.last_funding_rate_ts]

\* The loop over the positions, from slot i on, with the running total.
\* status "err" is the helper's error returned by `?`, "panic" a failed
\* unwrap of the checked add; the slots settled before it stay settled.
RECURSIVE settle_loop(_, _, _, _)
settle_loop(positions, markets_, i, funding_payment) ==
    IF i > Len(positions)
    THEN [status |-> "ok", positions |-> positions, funding_payment |-> funding_payment]
    ELSE LET market_position == positions[i]
         IN  IF market_position.base_asset_amount = 0
             THEN settle_loop(positions, markets_, i + 1, funding_payment)
             ELSE LET amm == markets_[market_position.market_index]
                      rate == amm_cumulative_funding_rate(market_position, amm)
                  IN  IF rate = market_position.last_cumulative_funding_rate
                      THEN settle_loop(positions, markets_, i + 1, funding_payment)
                      ELSE LET payment == calculate_funding_payment(rate, market_position)
                               total == i128_checked_add(funding_payment, payment.val)
                           IN  IF payment.status = "err"
                               THEN [status |-> "err", positions |-> positions,
                                     funding_payment |-> funding_payment]
                               ELSE IF total.status = "err"
                               THEN [status |-> "panic", positions |-> positions,
                                     funding_payment |-> funding_payment]
                               ELSE settle_loop(
                                        [positions EXCEPT ![i] =
                                            advance_checkpoint(market_position, amm, rate)],
                                        markets_, i + 1, total.val)

\* The collateral written as the loop goes, also when the call then fails.
settle_funding_payment_Eager(user, user_positions, markets_) ==
    LET l == settle_loop(user_positions, markets_, 1, 0)
        funding_payment_collateral ==
            i128_checked_div(l.funding_payment, AMM_TO_QUOTE_PRECISION_RATIO_I128)
        updated == calculate_updated_collateral(user.collateral,
                                                funding_payment_collateral.val)
    IN  IF updated.status = "err"
        THEN [status |-> "err", user |-> user, user_positions |-> l.positions]
        ELSE [status |-> l.status, user |-> [user EXCEPT !.collateral = updated.val],
              user_positions |-> l.positions]

\* The whole call: the positions and the user as the call leaves them, and
\* how it ended ("ok", "err" for Err(..), "panic").
settle_funding_payment(user, user_positions, markets_) ==
    LET l == settle_loop(user_positions, markets_, 1, 0)
        funding_payment_collateral ==
            i128_checked_div(l.funding_payment, AMM_TO_QUOTE_PRECISION_RATIO_I128)
        updated == calculate_updated_collateral(user.collateral,
                                                funding_payment_collateral.val)
    IN  IF l.status # "ok"
        THEN [status |-> l.status, user |-> user, user_positions |-> l.positions]
        ELSE IF funding_payment_collateral.status = "err"
        THEN [status |-> "panic", user |-> user, user_positions |-> l.positions]
        ELSE IF updated.status = "err"
        THEN [status |-> "err", user |-> user, user_positions |-> l.positions]
        ELSE [status |-> "ok", user |-> [user EXCEPT !.collateral = updated.val],
              user_positions |-> l.positions]

\* ------------------------------------------------- calculate_margin_ratio
\* Loop 1: the aggregate notional value and unrealized P&L from slot i on.
RECURSIVE margin_loop(_, _, _, _, _)
margin_loop(positions, markets_, i, base_asset_value, unrealized_pnl) ==
    IF i > Len(positions)
    THEN [status |-> "ok", base_asset_value |-> base_asset_value,
          unrealized_pnl |-> unrealized_pnl]
    ELSE LET market_position == positions[i]
         IN  IF market_position.base_asset_amount = 0
             THEN margin_loop(positions, markets_, i + 1, base_asset_value, unrealized_pnl)
             ELSE LET amm == markets_[market_position.market_index]
                      r == calculate_base_asset_value_and_pnl(market_position, amm)
                      value == u128_checked_add(base_asset_value, r.val[1])
                      pnl == i128_checked_add(unrealized_pnl, r.val[2])
                  IN  IF r.status = "err"
                      THEN [status |-> "err", base_asset_value |-> base_asset_value,
                            unrealized_pnl |-> unrealized_pnl]
                      ELSE IF value.status = "err" \/ pnl.status = "err"
                      THEN [status |-> "panic", base_asset_value |-> base_asset_value,
                            unrealized_pnl |-> unrealized_pnl]
                      ELSE margin_loop(positions, markets_, i + 1, value.val, pnl.val)

\* The guard of the sentinel branch.
no_exposure_Never(base_asset_value) == FALSE

no_exposure(base_asset_value) == base_asset_value = 0

\* How the call ended and the tuple it returns; divided tells whether the
\* division by the aggregate notional was executed, and by what.
MarginResult(st, tc, pnl, bav, mr, dv, by) ==
    [status |-> st, total_collateral |-> tc, unrealized_pnl |-> pnl,
     base_asset_value |-> bav, margin_ratio |-> mr, divided |-> dv, divisor |-> by]

calculate_margin_ratio(user, user_positions, markets_) ==
    LET l == margin_loop(user_positions, markets_, 1, 0, 0)
        total_collateral == calculate_updated_collateral(user.collateral, l.unrealized_pnl)
        scaled == u128_checked_mul(total_collateral.val, MARGIN_PRECISION)
        margin_ratio == u128_checked_div(scaled.val, l.base_asset_value)
    IN  IF l.status # "ok"
        THEN MarginResult(l.status, 0, l.unrealized_pnl, l.base_asset_value, 0, FALSE, 0)
        ELSE IF no_exposure(l.base_asset_value)
        THEN MarginResult("ok", U128_MAX, l.unrealized_pnl, l.base_asset_value,
                          U128_MAX, FALSE, 0)
        ELSE IF total_collateral.status = "err"
        THEN MarginResult("err", 0, l.unrealized_pnl, l.base_asset_value, 0, FALSE, 0)
        ELSE IF scaled.status = "err"
        THEN MarginResult("panic", total_collateral.val, l.unrealized_pnl,
                          l.base_asset_value, 0, FALSE, 0)
        ELSE IF margin_ratio.status = "err"
        THEN MarginResult("panic", total_collateral.val, l.unrealized_pnl,
                          l.base_asset_value, 0, TRUE, l.base_asset_value)
        ELSE MarginResult("ok", total_collateral.val, l.unrealized_pnl,
                          l.base_asset_value, margin_ratio.val, TRUE, l.base_asset_value)

\* ------------------------------------------------------ ledger and decoding
\* Raw account bytes: the 8-byte discriminator and the serialized body.
Bytes(disc, body) == [disc |-> disc, body |-> body]
\* AccountDeserialize::try_deserialize for one account type: the bytes
\* decode only when the discriminator is the type's.
try_deserialize(type, bytes) ==
    IF bytes.disc = type THEN Ok(bytes.body) ELSE Err

\* Result of an RPC call: the data, or a client error (no data: `blank`).
RpcOk(data) == [status |-> "ok", data |-> data]
RpcErr(blank) == [status |-> "err", data |-> Bytes("none", blank)]
\* What a read of an account of type `type` can return: a client error,
\* bytes that are not of the type, or one of `bodies` serialized.
Answers(type, bodies, blank) ==
    {RpcErr(blank), RpcOk(Bytes("junk", blank))}
        \cup {RpcOk(Bytes(type, b)) : b \in bodies}

\* -------------------------------------------------------------- identities
Accounts == {"u1", "u2"}
MarketIndexes == {0, 1}
PositionsKey(a) == <<"positions", a>>
PAYER == "payer"
LIQUIDATOR_DRIFT_ACCOUNT == "liquidator_drift_account"
SPL_TOKEN_ID == "spl_token"
STATE_KEY == "state"

Position(mi, base, quote, rate, ts) ==
    [market_index |-> mi, base_asset_amount |-> base, quote_asset_amount |-> quote,
     last_cumulative_funding_rate |-> rate, last_funding_rate_ts |-> ts]
Amm(long, short, ts, price, oracle) ==
    [cumulative_funding_rate_long |-> long, cumulative_funding_rate_short |-> short,
     last_funding_rate_ts |-> ts, price |-> price, oracle |-> oracle]
User(a, collateral) ==
    [collateral |-> collateral, positions |-> PositionsKey(a), authority |-> <<"authority", a>>]
State(threshold) ==
    [margin_ratio_partial |-> threshold,
     collateral_vault |-> "collateral_vault",
     collateral_vault_authority |-> "collateral_vault_authority",
     insurance_vault |-> "insurance_vault",
     insurance_vault_authority |-> "insurance_vault_authority",
     markets |-> "markets",
     trade_history |-> "trade_history",
     liquidation_history |-> "liquidation_history",
     funding_payment_history |-> "funding_payment_history"]

\* ------------------------------------------- what the ledger can answer
\* Market Tables the ledger serves (market 1 of the second one prices at 0).
LedgerMarketTables ==
    { [m \in MarketIndexes |-> IF m = 0 THEN Amm(5, 3, 7, 2, "oracle0")
                                         ELSE Amm(2, -4, 7, 1, "oracle1")],
      [m \in MarketIndexes |-> IF m = 0 THEN Amm(5, 3, 8, 2, "oracle0")
                                         ELSE Amm(2, 1, 8, 0, "oracle1")] }
\* Position Sets the ledger serves: any decoded set is accepted (line 73),
\* one with two active slots of the same market included.
LedgerPositionSets ==
    { << >>,
      << Position(0, 2, 3, 5, 7) >>,
      << Position(0, 2, 3, 5, 7), Position(0, 2, 3, 5, 7) >>,
      << Position(0, 0, 0, 0, 0), Position(1, -3, 1, 1, 0) >>,
      << Position(1, 1, 0, I128_MIN, 0) >>,
      << Position(1, 2, 1, 0, 0), Position(0, -2, 6, -5, 0) >> }
LedgerCollaterals == {0, 1, 4, U128_MAX}
Thresholds == {5, U128_MAX}

MarketsAnswers ==
    Answers("Markets", LedgerMarketTables, CHOOSE t \in LedgerMarketTables : TRUE)
PositionsAnswers == Answers("UserPositions", LedgerPositionSets, << >>)
UserAnswers(a) == Answers("User", {User(a, c) : c \in LedgerCollaterals}, User(a, 0))

\* ------------------------------------------------------ liquidation step
\* The test of line 87.
is_liquidatable_Strict(margin_ratio, state_) == margin_ratio < state_.margin_ratio_partial

is_liquidatable(margin_ratio, state_) == margin_ratio <= state_.margin_ratio_partial

AccountMeta_new(pubkey, is_signer) ==
    [pubkey |-> pubkey, is_signer |-> is_signer, is_writable |-> TRUE]
AccountMeta_new_readonly(pubkey, is_signer) ==
    [pubkey |-> pubkey, is_signer |-> is_signer, is_writable |-> FALSE]

\* The fixed prefix of the instruction's accounts.
fixed_accounts(state_, user_key, user) ==
    << AccountMeta_new_readonly(STATE_KEY, FALSE),
       AccountMeta_new(PAYER, TRUE),
       AccountMeta_new(LIQUIDATOR_DRIFT_ACCOUNT, FALSE),
       AccountMeta_new(user_key, FALSE),
       AccountMeta_new(state_.collateral_vault, FALSE),
       AccountMeta_new_readonly(state_.collateral_vault_authority, FALSE),
       AccountMeta_new(state_.insurance_vault, FALSE),
       AccountMeta_new_readonly(state_.insurance_vault_authority, FALSE),
       AccountMeta_new_readonly(SPL_TOKEN_ID, FALSE),
       AccountMeta_new(state_.markets, FALSE),
       AccountMeta_new(user.positions, FALSE),
       AccountMeta_new(state_.trade_history, FALSE),
       AccountMeta_new(state_.liquidation_history, FALSE),
       AccountMeta_new(state_.funding_payment_history, FALSE) >>

\* The oracles pushed by the loop over the positions.
oracle_accounts_All(user_positions, markets_) ==
    [i \in 1..Len(user_positions) |->
        AccountMeta_new_readonly(markets_[user_positions[i].market_index].oracle, FALSE)]

oracle_accounts(user_positions, markets_) ==
    LET active == SelectSeq(user_positions, LAMBDA p : p.base_asset_amount # 0)
    IN  [i \in 1..Len(active) |->
            AccountMeta_new_readonly(markets_[active[i].market_index].oracle, FALSE)]

liquidate_instruction(state_, user_key, user, user_positions, markets_) ==
    [program_id |-> "clearing_house",
     accounts |-> fixed_accounts(state_, user_key, user)
                      \o oracle_accounts(user_positions, markets_),
     data |-> "dfb3e27d302e274a"]

\* ------------------------------------------------------------------ state
VARIABLES
    mainpc,          \* main: "refresh" (line 64), "fanout" (66-130), "terminated"
    markets,         \* markets.1, the cached Market Table
    state,           \* state.1, the Venue Parameters
    users,           \* the Account Registry: account -> its User record
    pc,              \* per account task: where it stands in the closure
    user_positions,  \* per task: the local user_positions
    margin,          \* per task: the local margin_ratio (<<>> before line 84)
    instruction,     \* per task: the accounts of liquidate_instruction
    reads,           \* per task: how the two reads of line 67 ended
    submitted,       \* per account: outcomes of send_transaction this cycle
    outcome,         \* per task: how it ended ("" while it runs)
    seen,            \* per task: what the ledger answered to it this cycle
    fn_pc,           \* function harness: which calls have been made
    fn_in,           \* function harness: the arguments drawn
    fn_settle,       \* function harness: results of settle_funding_payment
    fn_margin,       \* function harness: results of calculate_margin_ratio
    boot             \* main before the loop: the scan of line 30 and what
                     \* lines 32-57 have recorded of it so far

sysvars == <<mainpc, markets, state, users, pc, user_positions, margin, instruction,
             reads, submitted, outcome, seen>>
fnvars == <<fn_pc, fn_in, fn_settle, fn_margin>>
vars == <<sysvars, fnvars, boot>>

\* ------------------------------------------------- bootstrap, lines 23-57
\* Pubkey::default(), Markets::default(), State::default(): lines 23-28.
PubkeyDefault == "default"
MarketsDefault == [m \in MarketIndexes |-> Amm(0, 0, 0, 0, "default")]
StateDefault ==
    [margin_ratio_partial |-> 0,
     collateral_vault |-> "default",
     collateral_vault_authority |-> "default",
     insurance_vault |-> "default",
     insurance_vault_authority |-> "default",
     markets |-> "default",
     trade_history |-> "default",
     liquidation_history |-> "default",
     funding_payment_history |-> "default"]
\* A pubkey as it stands in a User's authority field.
OwnedBy(owner) == <<"authority", owner>>
\* The decodings of lines 34, 46 and 52, in the order of the code.
TrialOrder == <<"User", "Markets", "State">>
\* Lines 23-30: nothing recorded, the scan returned `all_accounts`, a
\* sequence of <<pubkey, account data>>.
BootStart(all_accounts) ==
    [all_accounts |-> all_accounts,
     i |-> 1,
     users |-> << >>,
     markets |-> <<PubkeyDefault, MarketsDefault>>,
     state |-> <<PubkeyDefault, StateDefault>>,
     liquidator_drift_account |-> PubkeyDefault,
     tried |-> << >>]
\* The loop body without the `continue` of line 43: a decoded User is
\* tried as Markets and State as well.
classify_NoContinue(b, account) ==
    LET user_account == try_deserialize("User", account[2])
        markets_account == try_deserialize("Markets", account[2])
        state_account == try_deserialize("State", account[2])
        b1 == IF user_account.status # "err"
              THEN [b EXCEPT
                      !.liquidator_drift_account =
                          IF user_account.val.authority = OwnedBy(PAYER)
                          THEN account[1] ELSE @,
                      !.users = Append(@, <<account[1], user_account.val>>)]
              ELSE b
    IN  IF markets_account.status # "err"
        THEN [b1 EXCEPT !.markets = <<account[1], markets_account.val>>,
                        !.tried = <<"User", "Markets">>]
        ELSE IF state_account.status # "err"
        THEN [b1 EXCEPT !.state = <<account[1], state_account.val>>,
                        !.tried = <<"User", "Markets", "State">>]
        ELSE [b1 EXCEPT !.tried = <<"User", "Markets", "State">>]
\* The loop body, lines 33-56, for one raw account: `tried` is the
\* decodings it attempted, in order.
classify(b, account) ==
    LET user_account == try_deserialize("User", account[2])
        markets_account == try_deserialize("Markets", account[2])
        state_account == try_deserialize("State", account[2])
    IN  IF user_account.status # "err"
        THEN [b EXCEPT
                !.liquidator_drift_account =
                    IF user_account.val.authority = OwnedBy(PAYER)
                    THEN account[1] ELSE @,
                !.users = Append(@, <<account[1], user_account.val>>),
                !.tried = <<"User">>]
        ELSE IF markets_account.status # "err"
        THEN [b EXCEPT !.markets = <<account[1], markets_account.val>>,
                       !.tried = <<"User", "Markets">>]
        ELSE IF state_account.status # "err"
        THEN [b EXCEPT !.state = <<account[1], state_account.val>>,
                       !.tried = <<"User", "Markets", "State">>]
        ELSE [b EXCEPT !.tried = <<"User", "Markets", "State">>]
\* The bootstrap left aside: an empty scan.
BootOver == BootStart(<< >>)


NoReads == [positions |-> "none", user |-> "none"]
\* Nothing decoded yet: the record and Position Set of line 67, the record
\* of line 128 (each << >> or a one-element sequence).
NothingSeen == [user |-> << >>, positions |-> << >>, refetched |-> << >>]
InitialMarkets == CHOOSE t \in LedgerMarketTables : t[1].price = 1

Init ==
    /\ mainpc = "refresh"
    /\ markets = InitialMarkets
    /\ state \in {State(t) : t \in Thresholds}
    /\ users = [a \in Accounts |-> User(a, 1)]
    /\ pc = [a \in Accounts |-> "done"]
    /\ user_positions = [a \in Accounts |-> << >>]
    /\ margin = [a \in Accounts |-> << >>]
    /\ instruction = [a \in Accounts |-> << >>]
    /\ reads = [a \in Accounts |-> NoReads]
    /\ submitted = [a \in Accounts |-> << >>]
    /\ outcome = [a \in Accounts |-> ""]
    /\ seen = [a \in Accounts |-> NothingSeen]
    /\ boot = BootOver
    /\ fn_pc = "off"
    /\ fn_in = << >>
    /\ fn_settle = << >>
    /\ fn_margin = << >>

\* A task ends: its locals are dropped.
EndTask(a, how) ==
    /\ pc' = [pc EXCEPT ![a] = IF how \in {"read_failed", "safe", "liquidated"}
                               THEN "done" ELSE "panicked"]
    /\ outcome' = [outcome EXCEPT ![a] = how]
    /\ user_positions' = [user_positions EXCEPT ![a] = << >>]
    /\ instruction' = [instruction EXCEPT ![a] = << >>]

\* An assignment to one element of users (user.1 = ..): the task holds the
\* only reference to its element.
write_entry_Shared(registry, a, user) == [b \in DOMAIN registry |-> user]

write_entry(registry, a, user) == [registry EXCEPT ![a] = user]

\* Line 74: the element's record is replaced by the one just decoded.
registry_after_read_Kept(old, decoded) == old

registry_after_read(old, decoded) == decoded

\* Line 128: the element's record is replaced by the one fetched after the
\* submission.
registry_after_refetch_Local(settled, decoded) == settled

registry_after_refetch(settled, decoded) == decoded

\* The Venue Parameters at the top of a cycle: the loop reloads the Market
\* Table only, whatever threshold the ledger's record now holds.
refreshed_state_Reloaded(state_, on_ledger) == State(on_ledger)

refreshed_state(state_, on_ledger) == state_

\* Line 64: the Market Table is fetched and decoded, both unwrapped.
RefreshMarkets ==
    /\ mainpc = "refresh"
    /\ \E answer \in MarketsAnswers :
         LET decoded == try_deserialize("Markets", answer.data)
         IN  IF answer.status = "err" \/ decoded.status = "err"
             THEN /\ mainpc' = "terminated"
                  /\ UNCHANGED <<markets, pc, margin, reads, submitted, outcome, seen>>
             ELSE /\ mainpc' = "fanout"
                  /\ markets' = decoded.val
                  /\ pc' = [a \in Accounts |-> "start"]
                  /\ margin' = [a \in Accounts |-> << >>]
                  /\ reads' = [a \in Accounts |-> NoReads]
                  /\ submitted' = [a \in Accounts |-> << >>]
                  /\ outcome' = [a \in Accounts |-> ""]
                  /\ seen' = [a \in Accounts |-> NothingSeen]
    /\ \E on_ledger \in Thresholds : state' = refreshed_state(state, on_ledger)
    /\ UNCHANGED <<users, user_positions, instruction>>
    /\ UNCHANGED <<fnvars, boot>>

\* Line 69: the test after the two joined reads.
reads_failed_Both(user_postitions_data, user_account_data) ==
    user_postitions_data.status = "err" /\ user_account_data.status = "err"

reads_failed(user_postitions_data, user_account_data) ==
    user_postitions_data.status = "err" \/ user_account_data.status = "err"

\* Lines 67-74: the two reads, the early return, the two decodes (unwrapped:
\* an Err that reaches them, or bytes that do not decode, panic).
ReadAccount(a) ==
    /\ mainpc = "fanout"
    /\ pc[a] = "start"
    /\ \E pd \in PositionsAnswers, ud \in UserAnswers(a) :
         LET positions == try_deserialize("UserPositions", pd.data)
             user == try_deserialize("User", ud.data)
         IN  /\ reads' = [reads EXCEPT ![a] = [positions |-> pd.status, user |-> ud.status]]
             /\ IF reads_failed(pd, ud)
                THEN EndTask(a, "read_failed") /\ UNCHANGED <<users, seen>>
                ELSE IF pd.status = "err" \/ ud.status = "err"
                        \/ positions.status = "err" \/ user.status = "err"
                THEN EndTask(a, "panic_decode") /\ UNCHANGED <<users, seen>>
                ELSE /\ pc' = [pc EXCEPT ![a] = "settle"]
                     /\ user_positions' = [user_positions EXCEPT ![a] = positions.val]
                     /\ users' = write_entry(users, a,
                                             registry_after_read(users[a], user.val))
                     /\ seen' = [seen EXCEPT ![a].user = << user.val >>,
                                             ![a].positions = << positions.val >>]
                     /\ UNCHANGED <<outcome, instruction>>
    /\ UNCHANGED <<mainpc, markets, state, margin, submitted>>
    /\ UNCHANGED <<fnvars, boot>>

\* The evaluation reached without the settlement.
Settle_Skip(a) ==
    /\ mainpc = "fanout"
    /\ pc[a] = "settle"
    /\ pc' = [pc EXCEPT ![a] = "evaluate"]
    /\ UNCHANGED <<mainpc, markets, state, users, user_positions, margin, instruction,
                   reads, submitted, outcome, seen>>
    /\ UNCHANGED <<fnvars, boot>>

\* Lines 77-81: settle_funding_payment(..).unwrap().
Settle(a) ==
    /\ mainpc = "fanout"
    /\ pc[a] = "settle"
    /\ LET r == settle_funding_payment(users[a], user_positions[a], markets)
       IN  /\ users' = write_entry(users, a, r.user)
           /\ IF r.status = "ok"
              THEN /\ pc' = [pc EXCEPT ![a] = "evaluate"]
                   /\ user_positions' = [user_positions EXCEPT ![a] = r.user_positions]
                   /\ UNCHANGED <<outcome, instruction>>
              ELSE EndTask(a, "panic_arithmetic")
    /\ UNCHANGED <<mainpc, markets, state, margin, reads, submitted, seen>>
    /\ UNCHANGED <<fnvars, boot>>

\* Lines 84-116: calculate_margin_ratio(..).unwrap(), the test, and the
\* instruction built when the account is liquidatable.
Evaluate(a) ==
    /\ mainpc = "fanout"
    /\ pc[a] = "evaluate"
    /\ LET r == calculate_margin_ratio(users[a], user_positions[a], markets)
       IN  IF r.status # "ok"
           THEN EndTask(a, "panic_arithmetic") /\ UNCHANGED margin
           ELSE /\ margin' = [margin EXCEPT ![a] = << r.margin_ratio >>]
                /\ IF is_liquidatable(r.margin_ratio, state)
                   THEN /\ pc' = [pc EXCEPT ![a] = "blockhash"]
                        /\ instruction' = [instruction EXCEPT ![a] =
                               liquidate_instruction(state, a, users[a],
                                                     user_positions[a], markets).accounts]
                        /\ UNCHANGED <<outcome, user_positions>>
                   ELSE EndTask(a, "safe")
    /\ UNCHANGED <<mainpc, markets, state, users, reads, submitted, seen>>
    /\ UNCHANGED <<fnvars, boot>>

\* Lines 118-123: the transaction is signed against get_recent_blockhash(),
\* unwrapped.
RecentBlockhash(a) ==
    /\ mainpc = "fanout"
    /\ pc[a] = "blockhash"
    /\ \E ok \in BOOLEAN :
         IF ok THEN /\ pc' = [pc EXCEPT ![a] = "send"]
                    /\ UNCHANGED <<outcome, user_positions, instruction>>
         ELSE EndTask(a, "panic_blockhash")
    /\ UNCHANGED <<mainpc, markets, state, users, margin, reads, submitted, seen>>
    /\ UNCHANGED <<fnvars, boot>>

\* send_transaction called again while it fails.
SendTransaction_Retry(a) ==
    /\ mainpc = "fanout"
    /\ pc[a] = "send"
    /\ \E result \in {"ok", "err"} :
         /\ submitted' = [submitted EXCEPT ![a] = Append(@, result)]
         /\ pc' = [pc EXCEPT ![a] = IF result = "ok" \/ Len(submitted[a]) >= 1
                                    THEN "refetch" ELSE "send"]
    /\ UNCHANGED <<mainpc, markets, state, users, user_positions, margin, instruction,
                   reads, outcome, seen>>
    /\ UNCHANGED <<fnvars, boot>>

\* Line 125: send_transaction; its Result is dropped.
SendTransaction(a) ==
    /\ mainpc = "fanout"
    /\ pc[a] = "send"
    /\ \E result \in {"ok", "err"} :
         submitted' = [submitted EXCEPT ![a] = Append(@, result)]
    /\ pc' = [pc EXCEPT ![a] = "refetch"]
    /\ UNCHANGED <<mainpc, markets, state, users, user_positions, margin, instruction,
                   reads, outcome, seen>>
    /\ UNCHANGED <<fnvars, boot>>

\* Line 128: the principal record is fetched and decoded again, unwrapped.
Refetch(a) ==
    /\ mainpc = "fanout"
    /\ pc[a] = "refetch"
    /\ \E ud \in UserAnswers(a) :
         LET user == try_deserialize("User", ud.data)
         IN  IF ud.status = "err" \/ user.status = "err"
             THEN EndTask(a, "panic_refetch") /\ UNCHANGED <<users, seen>>
             ELSE /\ EndTask(a, "liquidated")
                  /\ users' = write_entry(users, a,
                                          registry_after_refetch(users[a], user.val))
                  /\ seen' = [seen EXCEPT ![a].refetched = << user.val >>]
    /\ UNCHANGED <<mainpc, markets, state, margin, reads, submitted>>
    /\ UNCHANGED <<fnvars, boot>>

\* for_each returning as soon as one task has ended.
JoinFanout_Early ==
    /\ mainpc = "fanout"
    /\ \E a \in Accounts : pc[a] \in {"done", "panicked"}
    /\ mainpc' = IF \E a \in Accounts : pc[a] = "panicked" THEN "terminated" ELSE "refresh"
    /\ UNCHANGED <<markets, state, users, pc, user_positions, margin, instruction,
                   reads, submitted, outcome, seen>>
    /\ UNCHANGED <<fnvars, boot>>

\* Line 130: for_each returns when every task has ended; a panic of a task
\* is resumed in main, which ends the process, else the loop goes round.
JoinFanout ==
    /\ mainpc = "fanout"
    /\ \A a \in Accounts : pc[a] \in {"done", "panicked"}
    /\ mainpc' = IF \E a \in Accounts : pc[a] = "panicked" THEN "terminated" ELSE "refresh"
    /\ UNCHANGED <<markets, state, users, pc, user_positions, margin, instruction,
                   reads, submitted, outcome, seen>>
    /\ UNCHANGED <<fnvars, boot>>

Task(a) ==
    \/ ReadAccount(a)
    \/ Settle(a)
    \/ Evaluate(a)
    \/ RecentBlockhash(a)
    \/ SendTransaction(a)
    \/ Refetch(a)

Next ==
    \/ RefreshMarkets
    \/ \E a \in Accounts : Task(a)
    \/ JoinFanout

Spec == Init /\ [][Next]_vars

\* ===================================================== claims: the scheduler
Liquidating(a) ==
    pc[a] \in {"blockhash", "send", "refetch"}
        \/ outcome[a] \in {"liquidated", "panic_blockhash", "panic_refetch"}

\* C1: an arithmetic error found while settling or evaluating one account
\* aborts only that account's task: the process never ends with arithmetic
\* errors as the only failures of the cycle.
C1_OverflowAbortsOnlyTheAccount ==
    ~ ( /\ mainpc = "terminated"
        /\ \E a \in Accounts : outcome[a] = "panic_arithmetic"
        /\ \A a \in Accounts : pc[a] = "panicked" => outcome[a] = "panic_arithmetic" )

\* C2: a task one of whose two reads failed ends there: it returns without
\* decoding, settling, evaluating or submitting, its registry entry is the
\* one it started with, and no other account's entry or task is touched.
C2_ReadStep(a) ==
    /\ pc[a] = "start"
    /\ pc'[a] # "start"
    /\ reads'[a].positions = "err" \/ reads'[a].user = "err"
C2_ReadFailureIsolated ==
    /\ [][\A a \in Accounts :
            C2_ReadStep(a) =>
                /\ pc'[a] = "done"
                /\ outcome'[a] = "read_failed"
                /\ users' = users
                /\ margin' = margin
                /\ submitted' = submitted
                /\ mainpc' = mainpc
                /\ \A b \in Accounts \ {a} :
                     /\ pc'[b] = pc[b]
                     /\ outcome'[b] = outcome[b]
                     /\ user_positions'[b] = user_positions[b]]_vars
    /\ [](\A a \in Accounts :
            (reads[a].positions = "err" \/ reads[a].user = "err") =>
                /\ pc[a] = "done"
                /\ outcome[a] = "read_failed"
                /\ margin[a] = << >>
                /\ submitted[a] = << >>)
\* One read failed while the other succeeded, and another account of the
\* same cycle was liquidated.
C2_Witness ==
    \E a \in Accounts, b \in Accounts :
        /\ a # b
        /\ reads[a] = [positions |-> "ok", user |-> "err"]
        /\ outcome[a] = "read_failed"
        /\ outcome[b] = "liquidated"

\* C3: in CYCLE no failed read and no failed decode ends the process: the
\* process is terminated only when some task met an arithmetic error.
C3_NoFatalErrorInCycle ==
    mainpc = "terminated" => \E a \in Accounts : outcome[a] = "panic_arithmetic"

\* C4: for an account whose reads, settlement and evaluation succeeded, the
\* liquidation branch is entered (the instruction is built, and whatever is
\* submitted is submitted from it) exactly when the computed margin ratio is
\* at most the partial-margin threshold.
C4_LiquidateIffAtOrBelowThreshold ==
    \A a \in Accounts :
        /\ margin[a] # << >> =>
              /\ Liquidating(a) <=> margin[a][1] <= state.margin_ratio_partial
              /\ outcome[a] = "safe" <=> margin[a][1] > state.margin_ratio_partial
        /\ (submitted[a] # << >> \/ instruction[a] # << >>) =>
              /\ margin[a] # << >>
              /\ margin[a][1] <= state.margin_ratio_partial
\* A transaction was submitted at a margin ratio equal to the threshold,
\* and another account strictly above the threshold was left alone.
C4_Witness ==
    \E a \in Accounts, b \in Accounts :
        /\ margin[a] = << state.margin_ratio_partial >>
        /\ state.margin_ratio_partial < U128_MAX
        /\ submitted[a] # << >>
        /\ margin[b] # << >>
        /\ margin[b][1] > state.margin_ratio_partial
        /\ outcome[b] = "safe"

\* C6: no transaction is submitted for an account whose aggregate notional
\* exposure is zero, whatever the threshold.
AggregateNotional(a) == margin_loop(user_positions[a], markets, 1, 0, 0).base_asset_value
C6_ZeroNotionalNeverLiquidated ==
    \A a \in Accounts :
        (pc[a] = "refetch" /\ submitted[a] # << >>) => AggregateNotional(a) # 0

\* C9: the entries after the 14 fixed accounts are the oracles of the
\* markets in which the target has nonzero exposure: one per such market,
\* none for the others, in the order of the positions.
FixedPrefixLen == 14
ActiveSlots(ps) == {i \in 1..Len(ps) : ps[i].base_asset_amount # 0}
NthActiveSlot(ps, k) ==
    CHOOSE i \in ActiveSlots(ps) : Cardinality({j \in ActiveSlots(ps) : j < i}) = k - 1
OracleTail(a) == SubSeq(instruction[a], FixedPrefixLen + 1, Len(instruction[a]))
C9_OracleListComplete ==
    \A a \in Accounts :
        instruction[a] # << >> =>
            LET ps == user_positions[a]
                tail == OracleTail(a)
            IN  /\ Len(instruction[a]) >= FixedPrefixLen
                /\ Len(tail) = Cardinality(ActiveSlots(ps))
                /\ \A k \in 1..Len(tail) :
                     /\ tail[k].pubkey = markets[ps[NthActiveSlot(ps, k)].market_index].oracle
                     /\ ~tail[k].is_signer
                     /\ ~tail[k].is_writable
                /\ \A m \in MarketIndexes :
                     Cardinality({k \in 1..Len(tail) : tail[k].pubkey = markets[m].oracle})
                       = IF \E i \in ActiveSlots(ps) : ps[i].market_index = m THEN 1 ELSE 0
\* An instruction was built for a Position Set with an empty slot before an
\* active one, and one for a Position Set with two active slots.
C9_Witness ==
    \E a \in Accounts, b \in Accounts :
        /\ instruction[a] # << >>
        /\ Len(user_positions[a]) = 2
        /\ Len(OracleTail(a)) = 1
        /\ instruction[b] # << >>
        /\ Len(OracleTail(b)) = 2
        /\ OracleTail(b)[1].pubkey = "oracle1"

\* C10: a failed submission is not retried (at most one submission per
\* account per cycle), ends neither the process nor any task, and leaves
\* the task where a successful one leaves it: at the re-fetch.
C10_SendStep(a) == Len(submitted'[a]) > Len(submitted[a])
C10_FailedSubmissionRecoverable ==
    /\ [][\A a \in Accounts :
            C10_SendStep(a) =>
                /\ pc'[a] = "refetch"
                /\ outcome' = outcome
                /\ mainpc' = mainpc
                /\ users' = users
                /\ \A b \in Accounts \ {a} : pc'[b] = pc[b] /\ submitted'[b] = submitted[b]]_vars
    /\ [](\A a \in Accounts : Len(submitted[a]) <= 1)
\* After a failed submission the cycle ended and the scheduler is back at
\* the Market Table refresh, the other account having been liquidated.
C10_Witness ==
    \E a \in Accounts, b \in Accounts :
        /\ a # b
        /\ submitted[a] = << "err" >>
        /\ outcome[a] = "liquidated"
        /\ outcome[b] = "liquidated"
        /\ mainpc = "refresh"

\* ------------------------------------------- claims: the scheduler, C11-C19
Running(a) == pc[a] \notin {"done", "panicked"}
\* settle_funding_payment on what line 67 read for the task in this cycle.
SettledView(a) == settle_funding_payment(seen[a].user[1], seen[a].positions[1], markets)

\* C11: a task that submitted a transaction, successfully or not, goes on to
\* re-fetch the principal record; the re-fetch comes after the submission,
\* and when the task ends with it the registry entry is the record it read,
\* not the settled local copy.
C11_RefetchedAfterSubmission ==
    \A a \in Accounts :
        /\ submitted[a] # << >> =>
              pc[a] = "refetch" \/ outcome[a] \in {"liquidated", "panic_refetch"}
        /\ seen[a].refetched # << >> => submitted[a] # << >>
        /\ outcome[a] = "liquidated" =>
              /\ submitted[a] # << >>
              /\ seen[a].refetched # << >>
              /\ users[a] = seen[a].refetched[1]
\* A task ended after a failed submission with an entry that differs from
\* its settled local copy.
C11_Witness ==
    \E a \in Accounts :
        /\ outcome[a] = "liquidated"
        /\ submitted[a] = << "err" >>
        /\ users[a] # SettledView(a).user

\* C12: the Market Table is replaced only by the step that opens a cycle,
\* when no task runs and none of the new cycle has begun; the fan-out is
\* left only when every task has ended; while a task runs the table stays.
C12_MarketTableStableInCycle ==
    [][ /\ markets' # markets =>
              /\ mainpc = "refresh"
              /\ mainpc' = "fanout"
              /\ \A a \in Accounts : ~Running(a) /\ pc'[a] = "start"
        /\ (mainpc = "fanout" /\ mainpc' # "fanout") => \A a \in Accounts : ~Running(a)
        /\ (\E a \in Accounts : Running(a)) => markets' = markets ]_vars
\* Two tasks run at different steps against a table a refresh installed.
C12_Witness ==
    \E a \in Accounts, b \in Accounts :
        /\ mainpc = "fanout"
        /\ markets # InitialMarkets
        /\ pc[a] = "refetch"
        /\ pc[b] = "settle"

\* C15: the Venue Parameters never change in CYCLE, so the threshold of the
\* decision and the vault and history identities of every instruction are
\* those of the record loaded at bootstrap.
C15_VenueParametersStatic ==
    /\ [][state' = state]_vars
    /\ [](\A a \in Accounts :
            instruction[a] # << >> =>
                /\ margin[a][1] <= state.margin_ratio_partial
                /\ instruction[a][5].pubkey = state.collateral_vault
                /\ instruction[a][6].pubkey = state.collateral_vault_authority
                /\ instruction[a][7].pubkey = state.insurance_vault
                /\ instruction[a][8].pubkey = state.insurance_vault_authority
                /\ instruction[a][12].pubkey = state.trade_history
                /\ instruction[a][13].pubkey = state.liquidation_history
                /\ instruction[a][14].pubkey = state.funding_payment_history)
\* An instruction built in a cycle after the first (another account's entry
\* is no longer the bootstrap one while its task has not begun).
C15_Witness ==
    \E a \in Accounts, b \in Accounts :
        /\ instruction[a] # << >>
        /\ pc[b] = "start"
        /\ users[b] # User(b, 1)

\* C16: the margin ratio of the decision is the one of the collateral and
\* positions as this cycle's settlement left them, and nothing is
\* submitted for an account before its evaluation.
C16_SettleThenEvaluateThenLiquidate ==
    \A a \in Accounts :
        /\ pc[a] = "evaluate" =>
              /\ SettledView(a).status = "ok"
              /\ users[a] = SettledView(a).user
              /\ user_positions[a] = SettledView(a).user_positions
        /\ margin[a] # << >> =>
              /\ seen[a].user # << >>
              /\ margin[a][1] = calculate_margin_ratio(SettledView(a).user,
                                                       SettledView(a).user_positions,
                                                       markets).margin_ratio
        /\ (submitted[a] # << >> \/ instruction[a] # << >>) => margin[a] # << >>
\* Submitted at a margin ratio that differs from the pre-settlement one.
C16_Witness ==
    \E a \in Accounts :
        /\ submitted[a] # << >>
        /\ calculate_margin_ratio(seen[a].user[1], seen[a].positions[1],
                                  markets).status = "ok"
        /\ margin[a][1] # calculate_margin_ratio(seen[a].user[1], seen[a].positions[1],
                                                 markets).margin_ratio

\* C17: a step of a task changes nothing of another task or account, nor
\* the Market Table or the Venue Parameters; so the entry a task leaves is
\* a function of what the ledger answered to that task alone.
C17_TaskStep(a) == mainpc = "fanout" /\ mainpc' = "fanout" /\ pc'[a] # pc[a]
C17_NoSharedMutableState ==
    /\ [][\A a \in Accounts :
            C17_TaskStep(a) =>
                /\ markets' = markets
                /\ state' = state
                /\ \A b \in Accounts \ {a} :
                     /\ users'[b] = users[b]
                     /\ pc'[b] = pc[b]
                     /\ user_positions'[b] = user_positions[b]
                     /\ margin'[b] = margin[b]
                     /\ instruction'[b] = instruction[b]
                     /\ submitted'[b] = submitted[b]
                     /\ outcome'[b] = outcome[b]
                     /\ seen'[b] = seen[b]]_vars
    /\ [](\A a \in Accounts :
            /\ outcome[a] = "safe" => users[a] = SettledView(a).user
            /\ outcome[a] = "liquidated" => users[a] = seen[a].refetched[1])
\* Both tasks in flight at once, each having written its own entry.
C17_Witness ==
    \E a \in Accounts, b \in Accounts :
        /\ pc[a] = "evaluate"
        /\ pc[b] = "refetch"
        /\ users[a] # User(a, 1)
        /\ users[b] # User(b, 1)
        /\ users[a].collateral # users[b].collateral

\* C18: when every read of a cycle succeeded and decoded, every account
\* was settled and evaluated in that cycle and its task returned, so the
\* scheduler goes round.
C18_AllReadsFine(a) ==
    /\ reads[a] = [positions |-> "ok", user |-> "ok"]
    /\ outcome[a] \notin {"panic_decode", "panic_blockhash", "panic_refetch"}
C18_EveryAccountEvaluatedEachCycle ==
    (mainpc # "fanout" /\ \A a \in Accounts : C18_AllReadsFine(a)) =>
        \A a \in Accounts : margin[a] # << >> /\ pc[a] = "done"

\* C19: at the end of a task that did not liquidate, the registry
\* collateral is the collateral read from the ledger in this cycle with
\* this cycle's settlement applied once, whatever the entry held before.
C19_FundingAppliedOncePerCycle ==
    \A a \in Accounts :
        outcome[a] = "safe" =>
            /\ SettledView(a).status = "ok"
            /\ users[a].collateral = SettledView(a).user.collateral
            /\ users[a].collateral =
                 calculate_updated_collateral(
                     seen[a].user[1].collateral,
                     TruncDiv(settle_loop(seen[a].positions[1], markets, 1, 0).funding_payment,
                              AMM_TO_QUOTE_PRECISION_RATIO_I128)).val
\* In a cycle after the first, a task ended without liquidating and its
\* settlement changed the collateral read.
C19_Witness ==
    \E a \in Accounts, b \in Accounts :
        /\ outcome[a] = "safe"
        /\ users[a].collateral # seen[a].user[1].collateral
        /\ pc[b] = "start"
        /\ users[b] # User(b, 1)


\* ============================================ the two functions on their own
\* Arguments for settle_funding_payment and calculate_margin_ratio.
FnPositions ==
    { Position(0, 0, 0, 0, 0),
      Position(0, 2, 3, 1, 0),
      Position(0, 2, 3, 5, 7),
      Position(1, -3, 1, 1, 0),
      Position(1, -2, 6, 1, 0),
      Position(1, 3, 2, -3, 0),
      Position(1, 1, 0, I128_MIN, 0),
      Position(0, I128_MAX, 1, 0, 0),
      Position(1, I128_MAX, 1, 0, 0) }
RECURSIVE SeqsUpTo(_, _)
SeqsUpTo(S, n) ==
    IF n = 0 THEN { << >> }
    ELSE LET shorter == SeqsUpTo(S, n - 1)
         IN  shorter \cup {Append(q, x) : q \in shorter, x \in S}
FnPositionSets == SeqsUpTo(FnPositions, MaxPositions)
FnMarketTables ==
    LedgerMarketTables
        \cup { [m \in MarketIndexes |-> IF m = 0 THEN Amm(2, -6, 9, 3, "oracle0")
                                                  ELSE Amm(2, 7, 9, 1, "oracle1")] }
FnCollaterals == {0, 2, 9, 13, U128_MAX}

InitFn ==
    /\ mainpc = "terminated"
    /\ markets = InitialMarkets
    /\ state = State(5)
    /\ users = [a \in Accounts |-> User(a, 1)]
    /\ pc = [a \in Accounts |-> "done"]
    /\ user_positions = [a \in Accounts |-> << >>]
    /\ margin = [a \in Accounts |-> << >>]
    /\ instruction = [a \in Accounts |-> << >>]
    /\ reads = [a \in Accounts |-> NoReads]
    /\ submitted = [a \in Accounts |-> << >>]
    /\ outcome = [a \in Accounts |-> ""]
    /\ seen = [a \in Accounts |-> NothingSeen]
    /\ boot = BootOver
    /\ fn_pc = "input"
    /\ fn_in \in { [user |-> User("u1", c1), other |-> User("u2", c2),
                    user_positions |-> ps, markets |-> t] :
                   c1 \in FnCollaterals, c2 \in FnCollaterals,
                   ps \in FnPositionSets, t \in FnMarketTables }
    /\ fn_in.user.collateral <= fn_in.other.collateral
    /\ fn_settle = << >>
    /\ fn_margin = << >>

\* A first call of settle_funding_payment on the arguments.
FnSettle ==
    /\ fn_pc = "input"
    /\ fn_settle' = << settle_funding_payment(fn_in.user, fn_in.user_positions,
                                              fn_in.markets) >>
    /\ fn_pc' = "settled"
    /\ UNCHANGED <<fn_in, fn_margin, sysvars, boot>>

\* A second call right after a first one that returned Ok, on what the
\* first left, against the same Market Table.
FnSettleAgain ==
    /\ fn_pc = "settled"
    /\ fn_settle[1].status = "ok"
    /\ fn_settle' = Append(fn_settle,
                           settle_funding_payment(fn_settle[1].user,
                                                  fn_settle[1].user_positions,
                                                  fn_in.markets))
    /\ fn_pc' = "settled_twice"
    /\ UNCHANGED <<fn_in, fn_margin, sysvars, boot>>

\* calculate_margin_ratio for two accounts with the same Position Set and
\* Market Table, the second with at least the collateral of the first.
FnEvaluate ==
    /\ fn_pc = "input"
    /\ fn_margin' = << calculate_margin_ratio(fn_in.user, fn_in.user_positions,
                                              fn_in.markets),
                       calculate_margin_ratio(fn_in.other, fn_in.user_positions,
                                              fn_in.markets) >>
    /\ fn_pc' = "evaluated"
    /\ UNCHANGED <<fn_in, fn_settle, sysvars, boot>>

FnNext == FnSettle \/ FnSettleAgain \/ FnEvaluate

SpecFn == InitFn /\ [][FnNext]_vars

\* ===================================================== claims: the functions
\* C5: a second settle_funding_payment right after a successful first one,
\* with the same Market Table, returns Ok and leaves the collateral and
\* every position's checkpoint (rate and timestamp) as the first left them.
C5_SettlementIdempotent ==
    fn_pc = "settled_twice" =>
        /\ fn_settle[2].status = "ok"
        /\ fn_settle[2].user.collateral = fn_settle[1].user.collateral
        /\ Len(fn_settle[2].user_positions) = Len(fn_settle[1].user_positions)
        /\ \A i \in 1..Len(fn_settle[1].user_positions) :
             /\ fn_settle[2].user_positions[i].last_cumulative_funding_rate
                  = fn_settle[1].user_positions[i].last_cumulative_funding_rate
             /\ fn_settle[2].user_positions[i].last_funding_rate_ts
                  = fn_settle[1].user_positions[i].last_funding_rate_ts
\* The first call changed the collateral and a checkpoint, and the second
\* call has been made.
C5_Witness ==
    /\ fn_pc = "settled_twice"
    /\ fn_settle[1].user.collateral # fn_in.user.collateral
    /\ fn_settle[1].user_positions # fn_in.user_positions

\* C7: with every position at zero exposure calculate_margin_ratio returns
\* Ok((u128::MAX, 0, 0, u128::MAX)); and on every argument the division by
\* the aggregate notional is executed only when that notional is nonzero.
AllFlat(ps) == \A i \in 1..Len(ps) : ps[i].base_asset_amount = 0
C7_SentinelAndNoDivisionByZero ==
    fn_pc = "evaluated" =>
        \A k \in 1..2 :
            /\ fn_margin[k].divided => fn_margin[k].divisor # 0
            /\ AllFlat(fn_in.user_positions) =>
                 /\ fn_margin[k].status = "ok"
                 /\ fn_margin[k].margin_ratio = U128_MAX
                 /\ fn_margin[k].total_collateral = U128_MAX
                 /\ fn_margin[k].unrealized_pnl = 0
                 /\ fn_margin[k].base_asset_value = 0
                 /\ ~fn_margin[k].divided
\* Evaluated: a Position Set of two empty slots.
C7_Witness ==
    /\ fn_pc = "evaluated"
    /\ Len(fn_in.user_positions) = 2
    /\ AllFlat(fn_in.user_positions)
    /\ fn_margin[1].margin_ratio = U128_MAX

\* C8: same positions, same Market Table, collateral c1 <= c2, both calls
\* Ok: the margin ratio for c1 is at most the one for c2.
C8_MarginRatioMonotonic ==
    (fn_pc = "evaluated" /\ fn_margin[1].status = "ok" /\ fn_margin[2].status = "ok") =>
        fn_margin[1].margin_ratio <= fn_margin[2].margin_ratio
\* Both calls Ok on an account with exposure, the ratios differing.
C8_Witness ==
    /\ fn_pc = "evaluated"
    /\ fn_margin[1].status = "ok"
    /\ fn_margin[2].status = "ok"
    /\ fn_margin[1].divided
    /\ fn_margin[1].margin_ratio < fn_margin[2].margin_ratio

\* C14: after a settle_funding_payment that returned Ok, every position
\* with nonzero exposure has its rate checkpoint at the market's rate of the
\* side of its exposure (long for positive, short for negative); a position
\* that is flat or was already at that rate is unchanged; the others moved
\* to the market's rate and timestamp and nothing else of them changed.
SideRate(p, t) ==
    IF p.base_asset_amount > 0 THEN t[p.market_index].cumulative_funding_rate_long
                               ELSE t[p.market_index].cumulative_funding_rate_short
Contributes(p, t) == p.base_asset_amount # 0 /\ p.last_cumulative_funding_rate # SideRate(p, t)
PaymentOf(p, t) ==
    IF Contributes(p, t) THEN calculate_funding_payment(SideRate(p, t), p).val ELSE 0
RECURSIVE SumPayments(_, _, _)
SumPayments(ps, t, i) ==
    IF i > Len(ps) THEN 0 ELSE PaymentOf(ps[i], t) + SumPayments(ps, t, i + 1)
\* The payments' sum in collateral precision: one division, toward zero.
ConvertedPayment(ps, t) ==
    LET total == SumPayments(ps, t, 1)
        q == Abs(total) \div AMM_TO_QUOTE_PRECISION_RATIO_I128
    IN  IF total < 0 THEN -q ELSE q
C14_Checkpoints ==
    LET before == fn_in.user_positions
        after == fn_settle[1].user_positions
        t == fn_in.markets
    IN  /\ Len(after) = Len(before)
        /\ \A i \in 1..Len(before) :
             /\ before[i].base_asset_amount # 0 =>
                  after[i].last_cumulative_funding_rate = SideRate(before[i], t)
             /\ ~Contributes(before[i], t) => after[i] = before[i]
             /\ Contributes(before[i], t) =>
                  after[i] = [before[i] EXCEPT
                                 !.last_cumulative_funding_rate = SideRate(before[i], t),
                                 !.last_funding_rate_ts = t[before[i].market_index].last_funding_rate_ts]
\* The claim as stated: the collateral has changed by the converted sum.
C14_CollateralChangedBySum ==
    (fn_pc = "settled" /\ fn_settle[1].status = "ok") =>
        /\ C14_Checkpoints
        /\ fn_settle[1].user.collateral
             = fn_in.user.collateral + ConvertedPayment(fn_in.user_positions, fn_in.markets)
\* C14 as amended: the collateral has changed by the converted sum, except
\* that a debit larger than the collateral leaves the collateral at 0.
C14_SettlementEffect ==
    (fn_pc = "settled" /\ fn_settle[1].status = "ok") =>
        /\ C14_Checkpoints
        /\ LET c == fn_in.user.collateral
               d == ConvertedPayment(fn_in.user_positions, fn_in.markets)
           IN  fn_settle[1].user.collateral = IF c + d < 0 THEN 0 ELSE c + d
\* Settled: a long and a short position that both moved to the market's
\* rate, with a collateral that changed.
C14_Witness ==
    /\ fn_pc = "settled"
    /\ fn_settle[1].status = "ok"
    /\ Len(fn_in.user_positions) = 2
    /\ fn_in.user_positions[1].base_asset_amount > 0
    /\ fn_in.user_positions[2].base_asset_amount < 0
    /\ Contributes(fn_in.user_positions[1], fn_in.markets)
    /\ Contributes(fn_in.user_positions[2], fn_in.markets)
    /\ fn_settle[1].user.collateral # fn_in.user.collateral

\* C20: when settle_funding_payment returns Err, the collateral is the one
\* it was called with.
C20_CollateralUntouchedOnError ==
    (fn_pc = "settled" /\ fn_settle[1].status = "err") =>
        fn_settle[1].user.collateral = fn_in.user.collateral
\* Err returned after an earlier position had already been settled.
C20_Witness ==
    /\ fn_pc = "settled"
    /\ fn_settle[1].status = "err"
    /\ fn_settle[1].user_positions # fn_in.user_positions
    /\ fn_in.user.collateral > 0

\* ------------------------------------------------- the bootstrap on its own
\* Accounts the program owns on the ledger, as the scan of line 30 returns
\* them: User accounts (one of them the payer's), the Market Table, the
\* Venue Parameters, a UserPositions account and an account of no known
\* layout.
RawAccounts ==
    { <<"u1", Bytes("User", User("u1", 1))>>,
      <<"u2", Bytes("User", User("u2", 4))>>,
      <<LIQUIDATOR_DRIFT_ACCOUNT,
        Bytes("User", [User("liquidator", 9) EXCEPT !.authority = OwnedBy(PAYER)])>>,
      <<"markets", Bytes("Markets", InitialMarkets)>>,
      <<STATE_KEY, Bytes("State", State(5))>>,
      <<"u1_positions", Bytes("UserPositions", << Position(0, 2, 3, 5, 7) >>)>>,
      <<"unknown", Bytes("junk", << >>)>> }
BootLen == 3
\* The scans: BootLen accounts, each at its own address.
Scans ==
    { s \in [1..BootLen -> RawAccounts] :
        \A i, j \in 1..BootLen : i # j => s[i][1] # s[j][1] }

InitBoot ==
    /\ mainpc = "bootstrap"
    /\ markets = InitialMarkets
    /\ state = State(5)
    /\ users = [a \in Accounts |-> User(a, 1)]
    /\ pc = [a \in Accounts |-> "done"]
    /\ user_positions = [a \in Accounts |-> << >>]
    /\ margin = [a \in Accounts |-> << >>]
    /\ instruction = [a \in Accounts |-> << >>]
    /\ reads = [a \in Accounts |-> NoReads]
    /\ submitted = [a \in Accounts |-> << >>]
    /\ outcome = [a \in Accounts |-> ""]
    /\ seen = [a \in Accounts |-> NothingSeen]
    /\ boot \in {BootStart(s) : s \in Scans}
    /\ fn_pc = "off"
    /\ fn_in = << >>
    /\ fn_settle = << >>
    /\ fn_margin = << >>

\* One turn of the loop of line 32.
Classify ==
    /\ boot.i <= Len(boot.all_accounts)
    /\ boot' = [classify(boot, boot.all_accounts[boot.i]) EXCEPT !.i = @ + 1]
    /\ UNCHANGED <<sysvars, fnvars>>

BootNext == Classify
SpecBoot == InitBoot /\ [][BootNext]_vars

\* C13: each raw account is tried as User, then Markets, then State, up to
\* the first kind that decodes, and is recorded as that kind only; an
\* account that decodes as none is passed once and changes nothing
\* recorded; no address is ever recorded under two kinds.
Decodes(kind, account) == account[2].disc = kind
FirstKind(account) ==
    IF Decodes("User", account) THEN 1
    ELSE IF Decodes("Markets", account) THEN 2
    ELSE IF Decodes("State", account) THEN 3
    ELSE 0
C13_Step ==
    LET account == boot.all_accounts[boot.i]
        k == FirstKind(account)
    IN  /\ boot'.i = boot.i + 1
        /\ boot'.all_accounts = boot.all_accounts
        /\ boot'.tried = SubSeq(TrialOrder, 1, IF k = 0 THEN 3 ELSE k)
        /\ boot'.users = IF k = 1 THEN Append(boot.users, <<account[1], account[2].body>>)
                                  ELSE boot.users
        /\ boot'.markets = IF k = 2 THEN <<account[1], account[2].body>> ELSE boot.markets
        /\ boot'.state = IF k = 3 THEN <<account[1], account[2].body>> ELSE boot.state
        /\ k # 1 => boot'.liquidator_drift_account = boot.liquidator_drift_account
RecordedAs(kind) ==
    IF kind = "User" THEN {boot.users[j][1] : j \in 1..Len(boot.users)}
    ELSE IF kind = "Markets" THEN {boot.markets[1]} \ {PubkeyDefault}
    ELSE {boot.state[1]} \ {PubkeyDefault}
C13_ClassificationDisjointInOrder ==
    /\ [][C13_Step]_vars
    /\ [](\A k1, k2 \in {"User", "Markets", "State"} :
            k1 # k2 => RecordedAs(k1) \cap RecordedAs(k2) = {})
\* A scan with a User, the Market Table and an undecodable account, all
\* passed: one registry entry, the table cached, the parameters untouched.
C13_Witness ==
    /\ Len(boot.all_accounts) > 0
    /\ boot.i = Len(boot.all_accounts) + 1
    /\ \E j \in 1..Len(boot.all_accounts) : FirstKind(boot.all_accounts[j]) = 0
    /\ Len(boot.users) = 1
    /\ boot.markets[1] # PubkeyDefault
    /\ boot.state = <<PubkeyDefault, StateDefault>>

====
